---- MODULE Spec2Model ----
(***************************************************************************)
(* GroqChatOpenAI (src/utils/groq.py): a ChatOpenAI subclass that picks a  *)
(* max_tokens default from the model name at construction, flattens        *)
(* multimodal message content to text, trims the conversation history and  *)
(* hands the result to the parent class's invoke / ainvoke.                *)
(*                                                                         *)
(* Python strings are modelled as sequences of tokens, so that "".join,    *)
(* and the substring test `x in y`, are computed and not assumed.          *)
(***************************************************************************)
EXTENDS Integers, Sequences, FiniteSets, TLC

VARIABLES
    pc,             \* position of the caller / of the call in flight
    kwargs,         \* keyword arguments handed to __init__
    max_tokens,     \* kwargs["max_tokens"] as passed on to super().__init__
    input,          \* the caller's input object(s), as they are now
    input0,         \* the caller's input as it was when first supplied
    config,         \* the caller's config argument of the call
    extra,          \* the caller's **kwargs of the call
    method,         \* "invoke" or "ainvoke"
    processed,      \* processed_input
    down_calls,     \* number of super().invoke/ainvoke calls made by this call
    down_args,      \* arguments the parent class received
    down_outcome,   \* what the parent class answered (a reply or an error)
    result,         \* what the caller observed (a value returned or an error raised)
    resubmitted     \* _prepare_messages applied to a previous output of itself

vars == <<pc, kwargs, max_tokens, input, input0, config, extra, method,
          processed, down_calls, down_args, down_outcome, result, resubmitted>>

----------------------------------------------------------------------------
(* Bounds of the model *)

MaxNameLen == 3     \* tokens in a model name
MaxParts == 3       \* items in a multimodal content list
MaxLen == 6         \* messages in a conversation given to _prepare_messages
MaxConv == 5        \* messages in a conversation given to invoke / ainvoke

----------------------------------------------------------------------------
(* Strings *)

RECURSIVE IsPrefix(_, _)
IsPrefix(p, s) ==
    IF p = <<>> THEN TRUE
    ELSE IF s = <<>> THEN FALSE
    ELSE Head(p) = Head(s) /\ IsPrefix(Tail(p), Tail(s))

\* Python `needle in haystack` on str, compared with == instead of `in`
ContainsAsEquality(needle, haystack) == needle = haystack

\* Python `needle in haystack` on str: substring containment
RECURSIVE Contains(_, _)
Contains(needle, haystack) ==
    IF IsPrefix(needle, haystack) THEN TRUE
    ELSE IF haystack = <<>> THEN FALSE
    ELSE Contains(needle, Tail(haystack))

RECURSIVE SeqsUpTo(_, _)
SeqsUpTo(S, n) ==
    IF n = 0 THEN {<<>>}
    ELSE LET shorter == SeqsUpTo(S, n - 1)
         IN  shorter \cup {Append(s, x) : s \in shorter, x \in S}

----------------------------------------------------------------------------
(* Construction: GroqChatOpenAI.__init__ *)

\* A keyword argument: absent from kwargs, or present with a value
Absent(filler) == [has |-> FALSE, val |-> filler]
Given(v) == [has |-> TRUE, val |-> v]

\* A max_tokens value: an int, or Python's None
Tokens(n) == [isNone |-> FALSE, n |-> n]
NoneTokens == [isNone |-> TRUE, n |-> 0]

NameTokens == {"groq/", "mixtral-8x7b", "-32768", "llama3-8b-8192"}
MixtralName == <<"mixtral-8x7b", "-32768">>
DefaultModel == <<"llama3-8b-8192">>
MixtralMaxTokens == 30000
OtherMaxTokens == 7000

ModelNames == SeqsUpTo(NameTokens, MaxNameLen)
TokenBudgets == {NoneTokens} \cup {Tokens(n) : n \in {1, 1024, 7000, 30000, 100000}}

KwargsInputs ==
    [model : {Given(m) : m \in ModelNames} \cup {Absent(<<>>)},
     max_tokens : {Given(t) : t \in TokenBudgets} \cup {Absent(NoneTokens)}]

\* dict.get(key, default)
KwargsGet(kw, key, default) == IF kw[key].has THEN kw[key].val ELSE default

\* the value __init__ stores in kwargs["max_tokens"]
InitMaxTokens(kw) ==
    LET model == KwargsGet(kw, "model", DefaultModel)
    IN  IF Contains(MixtralName, model)
        THEN KwargsGet(kw, "max_tokens", Tokens(MixtralMaxTokens))
        ELSE KwargsGet(kw, "max_tokens", Tokens(OtherMaxTokens))

----------------------------------------------------------------------------
(* Messages *)

\* The message classes isinstance tells apart: SystemMessage, HumanMessage,
\* AIMessage, and every other BaseMessage (ToolMessage, ChatMessage, ...)
Roles == {"system", "user", "assistant", "tool"}

\* An item of a content list: a dict (with or without "type" and "text" keys)
\* or something that is not a dict (a bare str)
Item(isDict, type, hasText, text) ==
    [isDict |-> isDict, type |-> type, hasText |-> hasText, text |-> text]
TextPart(t) == Item(TRUE, "text", TRUE, t)            \* {"type": "text", "text": t}
TextPartNoPayload == Item(TRUE, "text", FALSE, <<>>)  \* {"type": "text"}
ImagePart == Item(TRUE, "image_url", FALSE, <<>>)     \* {"type": "image_url", "image_url": ...}
CaptionedImagePart == Item(TRUE, "image", TRUE, <<"x">>)  \* {"type": "image", "text": "x"}
BareString == Item(FALSE, "None", FALSE, <<"r">>)     \* "r"

Items == {TextPart(<<"hi ">>), TextPart(<<"there">>), TextPartNoPayload, ImagePart,
          CaptionedImagePart, BareString}

\* message.content: a str, or a list of items
StrContent(s) == [isList |-> FALSE, str |-> s, parts |-> <<>>]
ListContent(parts) == [isList |-> TRUE, str |-> <<>>, parts |-> parts]

Msg(role, content) == [role |-> role, content |-> content]

\* isinstance(item, dict) and item.get("type") == "text", without the type test
IsTextItemAnyDict(item) == item.isDict /\ item.hasText

\* isinstance(item, dict) and item.get("type") == "text"
IsTextItem(item) == item.isDict /\ item.type = "text"

\* item["text"] instead of item.get("text", ""): KeyError when the key is missing
ItemTextOrKeyError(item) ==
    [raised |-> ~item.hasText, val |-> IF item.hasText THEN item.text ELSE <<>>]

\* item.get("text", "")
ItemText(item) ==
    [raised |-> FALSE, val |-> IF item.hasText THEN item.text ELSE <<>>]

\* the loop over message.content that fills text_parts
RECURSIVE CollectTextParts(_)
CollectTextParts(parts) ==
    IF parts = <<>> THEN [raised |-> FALSE, list |-> <<>>]
    ELSE LET item == Head(parts)
             rest == CollectTextParts(Tail(parts))
         IN  IF IsTextItem(item)
             THEN LET t == ItemText(item)
                  IN  IF t.raised THEN [raised |-> TRUE, list |-> <<>>]
                      ELSE [raised |-> rest.raised,
                            list |-> IF rest.raised THEN <<>> ELSE <<t.val>> \o rest.list]
             ELSE rest

\* "".join(text_parts)
RECURSIVE Join(_)
Join(text_parts) ==
    IF text_parts = <<>> THEN <<>> ELSE Head(text_parts) \o Join(Tail(text_parts))

\* _convert_to_string_content(message):
\*   raised: an exception left the call;  ret: the message returned;
\*   fresh: ret is a new object;  arg: the argument object after the call
ConvertToStringContent(message) ==
    IF message.content.isList
    THEN LET collected == CollectTextParts(message.content.parts)
             flat == Msg(message.role, StrContent(Join(collected.list)))
         IN  IF collected.raised
             THEN [raised |-> TRUE, ret |-> message, fresh |-> FALSE, arg |-> message]
             ELSE IF message.role \in {"user", "assistant", "system"}
             THEN [raised |-> FALSE, ret |-> flat, fresh |-> TRUE, arg |-> message]
             ELSE [raised |-> FALSE, ret |-> flat, fresh |-> FALSE, arg |-> flat]
    ELSE [raised |-> FALSE, ret |-> message, fresh |-> FALSE, arg |-> message]

----------------------------------------------------------------------------
(* History truncation: _prepare_messages *)

MinLenToTrim == 2       \* if len(processed_messages) > 2
KeepRecent == 4         \* if len(...) > 4: processed_messages[-4:]

\* s[:n] instead of s[-n:]
FirstN(s, n) == IF Len(s) <= n THEN s ELSE SubSeq(s, 1, n)

\* s[-n:]
LastN(s, n) == IF Len(s) <= n THEN s ELSE SubSeq(s, Len(s) - n + 1, Len(s))

\* the list comprehension, starting from the second message
ConvertedFromSecond(messages) ==
    [i \in 1..(Len(messages) - 1) |-> ConvertToStringContent(messages[i + 1])]

\* [self._convert_to_string_content(message) for message in messages]
Converted(messages) ==
    [i \in 1..Len(messages) |-> ConvertToStringContent(messages[i])]

\* isinstance(processed_messages[0], SystemMessage)
IsSystemMessage(m) == m.role = "system"

\* a trim that keeps one message too many
TrimRecentPlusOne(msgs) ==
    IF Len(msgs) > KeepRecent THEN LastN(msgs, KeepRecent + 1) ELSE msgs

\* a trim that drops only the oldest message
TrimOldestOnly(msgs) == IF Len(msgs) > KeepRecent THEN Tail(msgs) ELSE msgs

\* if len(processed_messages) > 4: processed_messages = processed_messages[-4:]
TrimRecent(msgs) == IF Len(msgs) > KeepRecent THEN LastN(msgs, KeepRecent) ELSE msgs

\* the truncation, with the system message left out of the result
TruncateDroppingSystem(msgs) ==
    IF Len(msgs) > MinLenToTrim
    THEN IF IsSystemMessage(msgs[1]) THEN TrimRecent(Tail(msgs)) ELSE TrimRecent(msgs)
    ELSE msgs

\* lines 66-81: the truncation of the converted messages
Truncate(msgs) ==
    IF Len(msgs) > MinLenToTrim
    THEN IF IsSystemMessage(msgs[1])
         THEN <<msgs[1]>> \o TrimRecent(Tail(msgs))
         ELSE TrimRecent(msgs)
    ELSE msgs

\* _prepare_messages(messages):
\*   raised: an exception left the call;  out: the list returned;
\*   args: the caller's message objects after the call
PrepareMessages(messages) ==
    LET conv == Converted(messages)
        anyRaised == \E i \in 1..Len(conv) : conv[i].raised
    IN  [raised |-> anyRaised,
         out |-> IF anyRaised THEN <<>>
                 ELSE Truncate([i \in 1..Len(conv) |-> conv[i].ret]),
         args |-> [i \in 1..Len(messages) |->
                      IF i <= Len(conv) /\ (\A j \in 1..i : ~conv[j].raised)
                      THEN conv[i].arg ELSE messages[i]]]

----------------------------------------------------------------------------
(* Values the call variables hold while no call has been made *)

None == [kind |-> "none", val |-> "none"]
NoInput == [isList |-> TRUE, msgs |-> <<>>]
NoArgs == [input |-> NoInput, config |-> "none", kwargs |-> "none"]

\* The values of the variables a specification does not use
ConstructIdle ==
    /\ kwargs = [model |-> Absent(<<>>), max_tokens |-> Absent(NoneTokens)]
    /\ max_tokens = Given(Tokens(OtherMaxTokens))

CallIdle ==
    /\ config = "none"
    /\ extra = "none"
    /\ method = "none"
    /\ down_calls = 0
    /\ down_args = NoArgs
    /\ down_outcome = None
    /\ result = None

----------------------------------------------------------------------------
(* SpecInit: construction *)

Construct ==
    /\ pc = "new"
    /\ max_tokens' = Given(InitMaxTokens(kwargs))
    /\ pc' = "constructed"
    /\ UNCHANGED <<kwargs, input, input0, config, extra, method, processed,
                   down_calls, down_args, down_outcome, result, resubmitted>>

InitConstruct ==
    /\ pc = "new"
    /\ kwargs \in KwargsInputs
    /\ max_tokens = Absent(NoneTokens)
    /\ input = NoInput
    /\ input0 = NoInput
    /\ processed = NoInput
    /\ resubmitted = <<>>
    /\ CallIdle

NextConstruct == Construct

SpecInit == InitConstruct /\ [][NextConstruct]_vars

----------------------------------------------------------------------------
(* SpecPrepare: _prepare_messages on a conversation, then on its own output *)

\* The messages conversations are drawn from: every class, str and list content
ConvMessages ==
    {Msg("system", StrContent(<<"You are helpful">>)),
     Msg("system", ListContent(<<TextPart(<<"hi ">>), ImagePart>>)),
     Msg("user", ListContent(<<TextPart(<<"hi ">>), ImagePart, TextPart(<<"there">>)>>)),
     Msg("assistant", StrContent(<<"b">>)),
     Msg("tool", ListContent(<<ImagePart, TextPart(<<"there">>)>>))}

Conversation(msgs) == [isList |-> TRUE, msgs |-> msgs]
Single(m) == [isList |-> FALSE, msgs |-> <<m>>]

InitPrepare ==
    /\ pc = "start"
    /\ \E msgs \in SeqsUpTo(ConvMessages, MaxLen) :
          /\ input = Conversation(msgs)
          /\ input0 = Conversation(msgs)
    /\ processed = NoInput
    /\ resubmitted = <<>>
    /\ ConstructIdle
    /\ CallIdle

\* processed = self._prepare_messages(input)
Prepare ==
    /\ pc = "start"
    /\ LET r == PrepareMessages(input.msgs)
       IN  /\ processed' = Conversation(r.out)
           /\ input' = Conversation(r.args)
           /\ pc' = IF r.raised THEN "raised" ELSE "prepared"
    /\ UNCHANGED <<kwargs, max_tokens, input0, config, extra, method,
                   down_calls, down_args, down_outcome, result, resubmitted>>

\* self._prepare_messages(processed): the output is submitted again
PrepareAgain ==
    /\ pc = "prepared"
    /\ LET r == PrepareMessages(processed.msgs)
       IN  /\ resubmitted' = r.out
           /\ pc' = IF r.raised THEN "raised" ELSE "resubmitted"
    /\ UNCHANGED <<kwargs, max_tokens, input, input0, config, extra, method,
                   processed, down_calls, down_args, down_outcome, result>>

NextPrepare == Prepare \/ PrepareAgain

SpecPrepare == InitPrepare /\ [][NextPrepare]_vars

----------------------------------------------------------------------------
(* Spec: invoke and ainvoke over the parent class *)

\* Inputs of invoke / ainvoke: one message, or a list of messages
SingleMessages ==
    {Msg(r, c) : r \in Roles,
                 c \in {StrContent(<<"hi">>)} \cup
                       {ListContent(p) : p \in SeqsUpTo(Items, MaxParts)}}

InvokeMessages ==
    {Msg("system", StrContent(<<"You are helpful">>)),
     Msg("user", ListContent(<<TextPart(<<"hi ">>), ImagePart, TextPart(<<"there">>)>>)),
     Msg("tool", ListContent(<<ImagePart, TextPart(<<"there">>)>>))}

Inputs ==
    {Single(m) : m \in SingleMessages} \cup
    {Conversation(c) : c \in SeqsUpTo(InvokeMessages, MaxConv)}

Configs == {"None", "{'tags': ['t']}"}
ExtraKwargs == {"{}", "{'stop': ['x']}"}

\* What the parent class's invoke / ainvoke can do: return a message or raise
Reply(v) == [kind |-> "reply", val |-> v]
Error(v) == [kind |-> "error", val |-> v]
Outcomes == {Reply("AIMessage('ok')"), Reply("AIMessage('')"), Error("RateLimitError")}
SanitizerError == Error("raised while processing the input")

\* lines 91-94 / 107-110: the processing of the input
Sanitize(inp) ==
    IF inp.isList
    THEN LET r == PrepareMessages(inp.msgs)
         IN  [raised |-> r.raised, out |-> Conversation(r.out), args |-> Conversation(r.args)]
    ELSE LET r == ConvertToStringContent(inp.msgs[1])
         IN  [raised |-> r.raised, out |-> Single(r.ret), args |-> Single(r.arg)]

\* the parent class called with the caller's input instead of processed_input
SuperArgsUnprocessed(inp, processed_input, cfg, kw) ==
    [input |-> inp, config |-> cfg, kwargs |-> kw]

\* super().invoke(processed_input, config, **kwargs)
SuperArgs(inp, processed_input, cfg, kw) ==
    [input |-> processed_input, config |-> cfg, kwargs |-> kw]

\* invoke(input, config, **kwargs): the whole blocking call
Invoke(cfg, kw) ==
    /\ pc = "idle"
    /\ method' = "invoke"
    /\ config' = cfg
    /\ extra' = kw
    /\ LET san == Sanitize(input)
       IN  /\ input' = san.args
           /\ processed' = san.out
           /\ IF san.raised
              THEN /\ down_calls' = 0
                   /\ down_args' = NoArgs
                   /\ down_outcome' = None
                   /\ result' = SanitizerError
                   /\ pc' = "raised"
              ELSE \E o \in Outcomes :
                   /\ down_calls' = 1
                   /\ down_args' = SuperArgs(input, san.out, cfg, kw)
                   /\ down_outcome' = o
                   /\ result' = o
                   /\ pc' = IF o.kind = "error" THEN "raised" ELSE "returned"
    /\ UNCHANGED <<kwargs, max_tokens, input0, resubmitted>>

\* ainvoke(input, config, **kwargs) up to its await of super().ainvoke(...)
AInvoke(cfg, kw) ==
    /\ pc = "idle"
    /\ method' = "ainvoke"
    /\ config' = cfg
    /\ extra' = kw
    /\ LET san == Sanitize(input)
       IN  /\ input' = san.args
           /\ processed' = san.out
           /\ down_outcome' = None
           /\ IF san.raised
              THEN /\ down_calls' = 0
                   /\ down_args' = NoArgs
                   /\ result' = SanitizerError
                   /\ pc' = "raised"
              ELSE /\ down_calls' = 1
                   /\ down_args' = SuperArgs(input, san.out, cfg, kw)
                   /\ result' = None
                   /\ pc' = "awaiting"
    /\ UNCHANGED <<kwargs, max_tokens, input0, resubmitted>>

\* the awaited super().ainvoke(...) completes: ainvoke returns or raises
AInvokeResume ==
    /\ pc = "awaiting"
    /\ \E o \in Outcomes :
          /\ down_outcome' = o
          /\ result' = o
          /\ pc' = IF o.kind = "error" THEN "raised" ELSE "returned"
    /\ UNCHANGED <<kwargs, max_tokens, input, input0, config, extra, method,
                   processed, down_calls, down_args, resubmitted>>

\* the caller is done with the reply or the error, and may call again
Discard ==
    /\ pc \in {"returned", "raised"}
    /\ pc' = "idle"
    /\ config' = "none"
    /\ extra' = "none"
    /\ method' = "none"
    /\ processed' = NoInput
    /\ down_calls' = 0
    /\ down_args' = NoArgs
    /\ down_outcome' = None
    /\ result' = None
    /\ UNCHANGED <<kwargs, max_tokens, input, input0, resubmitted>>

Init ==
    /\ pc = "idle"
    /\ \E inp \in Inputs :
          /\ input = inp
          /\ input0 = inp
    /\ processed = NoInput
    /\ resubmitted = <<>>
    /\ ConstructIdle
    /\ CallIdle

Next ==
    \/ \E cfg \in Configs, kw \in ExtraKwargs : Invoke(cfg, kw)
    \/ \E cfg \in Configs, kw \in ExtraKwargs : AInvoke(cfg, kw)
    \/ AInvokeResume
    \/ Discard

Spec == Init /\ [][Next]_vars

----------------------------------------------------------------------------
(* Properties of _prepare_messages, under SpecPrepare *)

Prepared == pc \in {"prepared", "resubmitted"}

\* a message as the flattening pass leaves it: same class, str content
Flattened(m) == ConvertToStringContent(m).ret

\* C1: a conversation of 6 or more messages whose first message is a system
\* message comes back as exactly 5 messages: the first message, then the last
\* 4 messages of the input in their order.
C1_SystemPlusLastFour ==
    LET in == input0.msgs
        out == processed.msgs
        n == Len(in)
    IN  (Prepared /\ n >= 6 /\ in[1].role = "system") =>
            /\ Len(out) = 5
            /\ out[1] = Flattened(in[1])
            /\ \A k \in 1..4 : out[1 + k] = Flattened(in[n - 4 + k])

C1_Witness ==
    /\ Prepared
    /\ Len(input0.msgs) = 6
    /\ input0.msgs[1].role = "system"
    /\ input0.msgs[2] # input0.msgs[3]
    /\ Len(processed.msgs) = 5

\* C2: a conversation of more than 4 messages whose first message is not a
\* system message comes back as exactly its last 4 messages in their order,
\* whatever the classes of the other messages.
C2_LastFourWithoutSystem ==
    LET in == input0.msgs
        out == processed.msgs
        n == Len(in)
    IN  (Prepared /\ n >= 5 /\ in[1].role # "system") =>
            /\ Len(out) = 4
            /\ \A k \in 1..4 : out[k] = Flattened(in[n - 4 + k])

C2_Witness ==
    /\ Prepared
    /\ Len(input0.msgs) >= 5
    /\ input0.msgs[1].role # "system"
    /\ input0.msgs[Len(input0.msgs) - 3].role = "system"
    /\ Len(processed.msgs) = 4
    /\ processed.msgs[1].role = "system"

\* C3: a conversation of 0, 1 or 2 messages comes back with the same messages
\* in the same order, each as the flattening pass leaves it.
C3_ShortIsIdentity ==
    LET in == input0.msgs
        out == processed.msgs
    IN  (Prepared /\ Len(in) <= 2) =>
            /\ Len(out) = Len(in)
            /\ \A i \in 1..Len(in) : out[i] = Flattened(in[i])

C3_Witness ==
    /\ Prepared
    /\ Len(input0.msgs) = 2
    /\ input0.msgs[1].role = "system"
    /\ input0.msgs[2].content.isList
    /\ Len(processed.msgs) = 2

\* C4: the output never has more than 5 messages, and never more than 4 when
\* the input holds no system message.
C4_OutputBounded ==
    LET in == input0.msgs
        out == processed.msgs
    IN  Prepared =>
            /\ Len(out) <= 5
            /\ (\A i \in 1..Len(in) : in[i].role # "system") => Len(out) <= 4

C4_Witness ==
    /\ Prepared
    /\ Len(input0.msgs) >= 6
    /\ \A i \in 1..Len(input0.msgs) : input0.msgs[i].role # "system"
    /\ Len(processed.msgs) = 4

\* C10: preparing the output of _prepare_messages again returns the same
\* messages with the same contents.
C10_Idempotent ==
    pc = "resubmitted" => resubmitted = processed.msgs

C10_Witness ==
    /\ pc = "resubmitted"
    /\ Len(input0.msgs) >= 5
    /\ input0.msgs[1].role # "system"
    /\ \E i \in 2..Len(input0.msgs) : input0.msgs[i].role = "system"
    /\ \E i \in 1..Len(input0.msgs) : input0.msgs[i].content.isList
    /\ Len(resubmitted) = 4
    /\ resubmitted[1].role = "system"

----------------------------------------------------------------------------
(* Properties of construction, under SpecInit *)

Constructed == pc = "constructed"

\* C6, as the specification words it: without an explicit max_tokens, the model
\* name "mixtral-8x7b-32768" gives 30000 and every other model name (the
\* default included) gives 7000; an explicit max_tokens is kept whatever the model.
C6_AsStated ==
    Constructed =>
        IF kwargs.max_tokens.has
        THEN max_tokens.val = kwargs.max_tokens.val
        ELSE IF kwargs.model.has /\ kwargs.model.val = MixtralName
        THEN max_tokens.val = Tokens(30000)
        ELSE max_tokens.val = Tokens(7000)

\* C6, amended: without an explicit max_tokens, a model name that contains
\* "mixtral-8x7b-32768" anywhere gives 30000 and every name that does not
\* contain it (the default included) gives 7000; an explicit max_tokens is
\* kept whatever the model.
C6_SubstringSelectsLimit ==
    Constructed =>
        IF kwargs.max_tokens.has
        THEN max_tokens.val = kwargs.max_tokens.val
        ELSE IF kwargs.model.has /\
                (\E i \in 0..Len(kwargs.model.val) :
                    \E j \in i..Len(kwargs.model.val) :
                        SubSeq(kwargs.model.val, i + 1, j) = MixtralName)
        THEN max_tokens.val = Tokens(30000)
        ELSE max_tokens.val = Tokens(7000)

C6_Witness ==
    /\ Constructed
    /\ ~kwargs.max_tokens.has
    /\ kwargs.model.has
    /\ kwargs.model.val = <<"groq/">> \o MixtralName
    /\ max_tokens.val = Tokens(30000)

----------------------------------------------------------------------------
(* Properties of invoke / ainvoke, under Spec *)

Called == pc \in {"awaiting", "returned", "raised"}
SingleIn == ~input0.isList

\* parts whose kind is "text", and the text such a part carries
KindIsText(item) == item.isDict /\ item.type = "text"
Payload(item) == IF item.hasText THEN item.text ELSE <<>>

\* the payloads of the text parts, one after the other with nothing between
TextOf(parts) ==
    LET texts == SelectSeq(parts, KindIsText)
        cat[i \in 0..Len(texts)] ==
            IF i = 0 THEN <<>> ELSE cat[i - 1] \o Payload(texts[i])
    IN  cat[Len(texts)]

\* C5: a message whose content list mixes text parts and other parts is
\* flattened to a message of the same class whose content is the text of the
\* text parts, in order and with no separator; other parts contribute nothing.
C5_FlattenKeepsOnlyText ==
    LET m == input0.msgs[1]
        parts == m.content.parts
    IN  (Called /\ SingleIn /\ m.content.isList
            /\ (\E i \in 1..Len(parts) : KindIsText(parts[i]))
            /\ (\E i \in 1..Len(parts) : ~KindIsText(parts[i]))) =>
            /\ processed.msgs[1].role = m.role
            /\ processed.msgs[1].content = StrContent(TextOf(parts))

C5_Witness ==
    /\ Called
    /\ SingleIn
    /\ input0.msgs[1].content =
          ListContent(<<TextPart(<<"hi ">>), CaptionedImagePart, TextPart(<<"there">>)>>)
    /\ processed.msgs[1].content = StrContent(<<"hi ", "there">>)

\* C7: no call changes what the caller passed in: the caller's conversation
\* keeps its length and order and every message of it keeps its content.
C7_InputUntouched ==
    input = input0

\* C8: each call calls the parent class exactly once, with the processed
\* input and the caller's config and keyword arguments; what the parent class
\* returns is returned, and what it raises is raised, as is.
C8_TransparentDispatch ==
    /\ Called =>
          /\ down_calls = 1
          /\ processed = Sanitize(input0).out
          /\ down_args = [input |-> processed, config |-> config, kwargs |-> extra]
    /\ pc \in {"returned", "raised"} =>
          /\ result = down_outcome
          /\ (pc = "raised") = (down_outcome.kind = "error")
    /\ pc = "awaiting" => result = None /\ down_outcome = None

C8_Witness ==
    /\ pc = "raised"
    /\ method = "ainvoke"
    /\ input0.isList
    /\ Len(input0.msgs) = 5
    /\ Len(processed.msgs) < 5
    /\ processed # input0
    /\ config # "None"
    /\ extra # "{}"
    /\ down_calls = 1
    /\ result = Error("RateLimitError")

====
